---- MODULE Spec2Model ----
(***************************************************************************)
(* Model of the document question-answering backend in its two service     *)
(* variants: Backend/backend/main.py (no authentication) and               *)
(* Backend/backend/Mock.py (bearer-token authentication, chat history).    *)
(*                                                                         *)
(* Every request handler is an `async def` whose body contains no `await`: *)
(* once started it runs to its response on the event loop, so one action   *)
(* models one whole request.  The outcomes of the external collaborators   *)
(* (file system, loaders, splitter, embedding provider, chat model) are    *)
(* inputs of the actions.                                                  *)
(***************************************************************************)
EXTENDS Integers, Sequences, FiniteSets, TLC

VARIABLES variant, vector_store, qa_chain, uploads, now, issued, nreq, last, succeeded

vars == <<variant, vector_store, qa_chain, uploads, now, issued, nreq, last, succeeded>>

(* ------------------------------ bounds --------------------------------- *)

\* Requests served in one behaviour.
MaxRequests == 4
\* The clock runs from 0 to MaxNow minutes, in steps of TickMinutes.
MaxNow == 30
TickMinutes == 30
\* Chunks the splitter produces for one document.
NChunks == 2

(* ------------------------- program constants --------------------------- *)

ACCESS_TOKEN_EXPIRE_MINUTES == 30
UPLOAD_DIR == "uploads"

\* Python's None, for each kind of value that may be unset.
NoIndex == [id |-> 0, chunks |-> {}]
NoChain == [id |-> 0, retriever |-> NoIndex]
NoSub == "None"
\* A request without an Authorization header, and a response without a token.
NoHeader == [kind |-> "missing", sub |-> NoSub, exp |-> 0, sig |-> "none"]
NoToken == [kind |-> "none", sub |-> NoSub, exp |-> 0, sig |-> "none"]

users_db == [u \in {"admin"} |->
               [username |-> "admin", hashed_password |-> "hashed_admin_password"]]

(* ------------------------------ inputs --------------------------------- *)

\* An uploaded file: its client-supplied name, as the parts between the
\* dots, and the document it holds.
Files == { [name |-> <<"a", "txt">>, doc |-> "A"],
           [name |-> <<"b", "PDF">>, doc |-> "B"],
           [name |-> <<"c", "xyz">>, doc |-> "C"] }

\* The exception classes a failing step raises: a ValueError, or another
\* subclass of Exception.
Kinds == {"ValueError", "RuntimeError"}

\* The step of an upload at which the environment fails, if any.
NoFault == [step |-> "none", kind |-> "none"]
Faults == {NoFault}
            \cup [step : {"open", "load", "split", "index", "chain"}, kind : Kinds]
            \cup {[step |-> "copy", kind |-> "RuntimeError"]}

Questions == {"", "   ", "What color is the sky?"}

Usernames == {"admin", "guest"}
Passwords == {"admin_password", "wrong"}

(* ------------------------- pure functions ------------------------------ *)

\* str.lower() on the strings that occur as a last dot-separated part.
Lower(s) ==
    CASE s = "PDF" -> "pdf"
      [] s = "TXT" -> "txt"
      [] OTHER -> s

\* os.path.join(UPLOAD_DIR, file.filename), kept as its dot-separated parts.
FilePath(name) == [i \in 1..Len(name) |->
                     IF i = 1 THEN UPLOAD_DIR \o "/" \o name[1] ELSE name[i]]

\* file_path.split(".")[-1].lower()
FileExtension(path) == Lower(path[Len(path)])

SupportedExtensions == {"pdf", "docx", "doc", "txt", "csv"}

\* get_loader_for_file: the loader, or the ValueError it raises.
get_loader_for_file(path) ==
    IF FileExtension(path) \in SupportedExtensions
      THEN [exc |-> "none", msg |-> "", loader |-> FileExtension(path)]
      ELSE [exc |-> "ValueError", loader |-> "none",
            msg |-> "Unsupported file format: " \o FileExtension(path)]

\* text_splitter.split_documents(loader.load()): the chunks of a document.
Chunks(doc) == {<<doc, i>> : i \in 1..NChunks}

\* str.strip() on the questions of the model.
Strip(q) == IF q \in {"", "   "} THEN "" ELSE q

(* --------------------------- authentication ---------------------------- *)

\* create_access_token({"sub": username}) at time t.
create_access_token(sub, t) ==
    [kind |-> "jwt", sub |-> sub, exp |-> t + ACCESS_TOKEN_EXPIRE_MINUTES, sig |-> "good"]

\* Tokens a caller can present without having logged in: an undecodable
\* string, a token with a bad signature, and well-signed tokens without a
\* subject or with a subject that is not in the user table.
Forged(t) ==
    { [kind |-> "garbage", sub |-> NoSub, exp |-> 0, sig |-> "none"],
      [create_access_token("admin", t) EXCEPT !.sig = "bad"],
      create_access_token(NoSub, t),
      create_access_token("ghost", t) }

\* The names the module imported as `jwt` defines (the package that provides
\* jwt.encode(payload, key, algorithm=...) and jwt.decode(token, key,
\* algorithms=[...])): it has no attribute JWTError.
JwtModuleNames == {"encode", "decode", "PyJWTError", "InvalidTokenError", "DecodeError",
                   "InvalidSignatureError", "ExpiredSignatureError"}

\* jwt.decode(token, SECRET_KEY, algorithms=[ALGORITHM]) at time t: the
\* exception it raises, or "none".
JwtDecode(token, t) ==
    IF token.kind # "jwt" THEN "DecodeError"
    ELSE IF token.sig # "good" THEN "InvalidSignatureError"
    ELSE IF token.exp <= t THEN "ExpiredSignatureError"
    ELSE "none"

\* The mutant of oauth2_scheme: auto_error switched off, the missing header
\* is handed on as the token.
oauth2_scheme_no_auto_error(header) ==
    [status |-> 0, token |-> header]

\* OAuth2PasswordBearer(tokenUrl="token"): the bearer token of the request,
\* or 401 when the request carries none.
oauth2_scheme(header) ==
    IF header.kind = "missing"
      THEN [status |-> 401, token |-> NoToken]
      ELSE [status |-> 0, token |-> header]

\* The try body of get_current_user: what it raises, and why.
CurrentUserBody(token, t) ==
    LET dec == JwtDecode(token, t) IN
    IF dec # "none"
      THEN [raised |-> dec,
            reason |-> CASE dec = "DecodeError" -> "undecodable"
                         [] dec = "InvalidSignatureError" -> "signature"
                         [] OTHER -> "expired",
            detail |-> "Invalid authentication credentials"]
    ELSE IF token.sub = NoSub
      THEN [raised |-> "HTTPException", reason |-> "nosub",
            detail |-> "Invalid authentication credentials"]
    ELSE IF token.sub \notin DOMAIN users_db
      THEN [raised |-> "HTTPException", reason |-> "unknownsub", detail |-> "User not found"]
    ELSE [raised |-> "none", reason |-> "ok", detail |-> ""]

\* get_current_user: the try body, then `except jwt.JWTError:`.  Matching
\* any raised exception evaluates the expression jwt.JWTError first, which
\* is itself an AttributeError when the module has no such name; the
\* framework answers an unhandled exception with 500.
get_current_user(token, t) ==
    LET b == CurrentUserBody(token, t) IN
    IF b.raised = "none"
      THEN [status |-> 0, reason |-> "ok", detail |-> ""]
    ELSE IF "JWTError" \notin JwtModuleNames
      THEN [status |-> 500, reason |-> b.reason, detail |-> "Internal Server Error"]
    ELSE [status |-> 401, reason |-> b.reason, detail |-> b.detail]

\* Depends(get_current_user) on a protected operation.
Authenticate(header, t) ==
    LET s == oauth2_scheme(header) IN
    IF s.status # 0
      THEN [status |-> s.status, reason |-> "missing", detail |-> "Not authenticated"]
      ELSE get_current_user(s.token, t)

(* ----------------------------- responses ------------------------------- *)

\* The last request and its response.  `reason` is "ok" when the handler's
\* body ran, and otherwise why authentication refused the request; `step`
\* and `exc` are the step that failed and the exception it raised.
Blank == [op |-> "none", status |-> 0, detail |-> "", file |-> <<>>, step |-> "none",
          exc |-> "none", question |-> "", header |-> NoHeader, reason |-> "none",
          context |-> {}, username |-> "", password |-> "", token |-> NoToken]

(* ------------------------------ upload --------------------------------- *)

\* FAISS.from_documents(texts, embeddings), built by request id.
FromDocuments(id, texts) == [id |-> id, chunks |-> texts]

\* ConversationalRetrievalChain.from_llm(llm, retriever=vector_store.as_retriever()).
FromLlm(id, store) == [id |-> id, retriever |-> store]

\* with open(file_path, "wb") as buffer: shutil.copyfileobj(file.file, buffer)
SaveUpload(path, fault) ==
    IF fault.step = "open"
      THEN [exc |-> fault.kind, step |-> "open", uploads |-> uploads]
    ELSE IF fault.step = "copy"
      THEN [exc |-> fault.kind, step |-> "copy", uploads |-> uploads \cup {path}]
    ELSE [exc |-> "none", step |-> "none", uploads |-> uploads \cup {path}]

\* The mutant of ProcessDocument: the new chunks are added to the index
\* that is already there.
ProcessDocumentMerging(path, file, fault, id) ==
    LET ld == get_loader_for_file(path)
        idx == FromDocuments(id, vector_store.chunks \cup Chunks(file.doc)) IN
    IF ld.exc # "none"
      THEN [exc |-> ld.exc, msg |-> ld.msg, step |-> "extension",
            vector_store |-> vector_store, qa_chain |-> qa_chain]
    ELSE IF fault.step \in {"load", "split", "index"}
      THEN [exc |-> fault.kind, msg |-> fault.kind, step |-> fault.step,
            vector_store |-> vector_store, qa_chain |-> qa_chain]
    ELSE IF fault.step = "chain"
      THEN [exc |-> fault.kind, msg |-> fault.kind, step |-> "chain",
            vector_store |-> idx, qa_chain |-> qa_chain]
    ELSE [exc |-> "none", msg |-> "", step |-> "none",
          vector_store |-> idx, qa_chain |-> FromLlm(id, idx)]

\* Loader selection, loading, splitting, index build and chain build, in
\* the order of the code: the exception that ends them, if any, and the
\* globals as they are assigned on the way.
ProcessDocument(path, file, fault, id) ==
    LET ld == get_loader_for_file(path)
        idx == FromDocuments(id, Chunks(file.doc)) IN
    IF ld.exc # "none"
      THEN [exc |-> ld.exc, msg |-> ld.msg, step |-> "extension",
            vector_store |-> vector_store, qa_chain |-> qa_chain]
    ELSE IF fault.step \in {"load", "split", "index"}
      THEN [exc |-> fault.kind, msg |-> fault.kind, step |-> fault.step,
            vector_store |-> vector_store, qa_chain |-> qa_chain]
    ELSE IF fault.step = "chain"
      THEN [exc |-> fault.kind, msg |-> fault.kind, step |-> "chain",
            vector_store |-> idx, qa_chain |-> qa_chain]
    ELSE [exc |-> "none", msg |-> "", step |-> "none",
          vector_store |-> idx, qa_chain |-> FromLlm(id, idx)]

\* main.py, upload_file: the whole handler.
MainUploadResult(file, fault, id) ==
    LET path == FilePath(file.name)
        sv == SaveUpload(path, fault)
        pd == ProcessDocument(path, file, fault, id)
        exc == IF sv.exc # "none" THEN sv.exc ELSE pd.exc
        \* finally: if os.path.exists(file_path): os.remove(file_path)
        dir == sv.uploads \ {path} IN
    [status |-> IF exc = "none" THEN 200 ELSE IF exc = "ValueError" THEN 400 ELSE 500,
     detail |-> IF exc = "none" THEN "File processed successfully"
                ELSE IF exc = "ValueError" THEN (IF sv.exc # "none" THEN sv.exc ELSE pd.msg)
                ELSE "Internal Server Error: " \o exc,
     exc |-> exc,
     step |-> IF sv.exc # "none" THEN sv.step ELSE pd.step,
     vector_store |-> IF sv.exc # "none" THEN vector_store ELSE pd.vector_store,
     qa_chain |-> IF sv.exc # "none" THEN qa_chain ELSE pd.qa_chain,
     uploads |-> dir]

\* Mock.py, upload_file: the whole handler, after authentication.  The file
\* is saved before the try statement, so a failure to save it is neither
\* caught nor followed by the finally clause.
MockUploadResult(file, fault, id) ==
    LET path == FilePath(file.name)
        sv == SaveUpload(path, fault)
        pd == ProcessDocument(path, file, fault, id) IN
    IF sv.exc # "none"
      THEN [status |-> 500, detail |-> "Internal Server Error", exc |-> sv.exc,
            step |-> sv.step, vector_store |-> vector_store, qa_chain |-> qa_chain,
            uploads |-> sv.uploads]
      ELSE [status |-> IF pd.exc = "none" THEN 200 ELSE 500,
            detail |-> IF pd.exc = "none" THEN "File processed successfully" ELSE pd.msg,
            exc |-> pd.exc, step |-> pd.step,
            vector_store |-> pd.vector_store, qa_chain |-> pd.qa_chain,
            \* finally: os.remove(file_path)
            uploads |-> sv.uploads \ {path}]

(* -------------------------------- ask ---------------------------------- *)

\* The mutant of NotReady: only the index is looked at.
NotReadyStoreOnly == vector_store = NoIndex

\* if not vector_store or not qa_chain
NotReady == vector_store = NoIndex \/ qa_chain = NoChain

\* The retriever qa_chain was built with, which a call of qa_chain uses.
BoundRetriever == qa_chain.retriever

\* result = qa_chain({...}); context = [doc.page_content for doc in ...]
\* inside try/except Exception: calling None, or a provider that fails,
\* ends in 500; otherwise the context is what the retriever returned.
CallChain(fails, picked) ==
    IF qa_chain = NoChain \/ fails
      THEN [status |-> 500, detail |-> "Internal Server Error", context |-> {},
            exc |-> IF qa_chain = NoChain THEN "TypeError" ELSE "RuntimeError"]
      ELSE [status |-> 200, detail |-> "answer", context |-> picked, exc |-> "none"]

\* main.py, ask_question.
MainAskResult(question, fails, picked) ==
    IF NotReady
      THEN [status |-> 400, detail |-> "No document has been uploaded yet", context |-> {},
            exc |-> "HTTPException"]
    ELSE IF Strip(question) = ""
      THEN [status |-> 422, detail |-> "Question cannot be empty", context |-> {},
            exc |-> "HTTPException"]
    ELSE CallChain(fails, picked)

\* Mock.py, ask_question, after authentication.
MockAskResult(question, fails, picked) ==
    IF NotReady
      THEN [status |-> 400, detail |-> "No document has been uploaded yet", context |-> {},
            exc |-> "HTTPException"]
    ELSE CallChain(fails, picked)

(* ------------------------------ actions -------------------------------- *)

Init ==
    /\ variant \in {"main", "mock"}
    /\ vector_store = NoIndex
    /\ qa_chain = NoChain
    /\ uploads = {}
    /\ now = 0
    /\ issued = {}
    /\ nreq = 0
    /\ last = Blank
    \* The uploads answered 200, oldest first: request number and document.
    /\ succeeded = <<>>

\* The headers a request of the auth variant can carry.
Headers == {NoHeader} \cup issued \cup Forged(now)

\* What the retriever can return for a question.
Picks == SUBSET BoundRetriever.chunks

\* POST /upload of main.py.
MainUpload ==
    /\ variant = "main"
    /\ nreq < MaxRequests
    /\ \E file \in Files, fault \in Faults :
         LET r == MainUploadResult(file, fault, nreq + 1) IN
         /\ vector_store' = r.vector_store
         /\ qa_chain' = r.qa_chain
         /\ uploads' = r.uploads
         /\ succeeded' = IF r.status = 200
                            THEN Append(succeeded, [id |-> nreq + 1, doc |-> file.doc])
                                            ELSE succeeded
         /\ last' = [Blank EXCEPT !.op = "upload", !.status = r.status, !.detail = r.detail,
                                  !.file = FilePath(file.name), !.step = r.step,
                                  !.exc = r.exc, !.reason = "ok"]
    /\ nreq' = nreq + 1
    /\ UNCHANGED <<variant, now, issued>>

\* POST /ask of main.py.
MainAsk ==
    /\ variant = "main"
    /\ nreq < MaxRequests
    /\ \E question \in Questions, fails \in BOOLEAN, picked \in Picks :
         LET r == MainAskResult(question, fails, picked) IN
         last' = [Blank EXCEPT !.op = "ask", !.status = r.status, !.detail = r.detail,
                               !.question = question, !.context = r.context,
                               !.exc = r.exc, !.reason = "ok"]
    /\ nreq' = nreq + 1
    /\ UNCHANGED <<variant, vector_store, qa_chain, uploads, now, issued, succeeded>>

\* POST /token of Mock.py: login.
Login ==
    /\ variant = "mock"
    /\ nreq < MaxRequests
    /\ \E username \in Usernames, password \in Passwords :
         IF username \notin DOMAIN users_db
           THEN /\ last' = [Blank EXCEPT !.op = "login", !.status = 400,
                                         !.detail = "Incorrect username or password",
                                         !.username = username, !.password = password]
                /\ issued' = issued
           ELSE LET token == create_access_token(users_db[username].username, now) IN
                /\ last' = [Blank EXCEPT !.op = "login", !.status = 200,
                                         !.username = username, !.password = password,
                                         !.token = token]
                /\ issued' = issued \cup {token}
    /\ nreq' = nreq + 1
    /\ UNCHANGED <<variant, vector_store, qa_chain, uploads, now, succeeded>>

\* POST /upload of Mock.py.
MockUpload ==
    /\ variant = "mock"
    /\ nreq < MaxRequests
    /\ \E header \in Headers :
         LET a == Authenticate(header, now) IN
         IF a.status # 0
           THEN /\ last' = [Blank EXCEPT !.op = "upload", !.status = a.status,
                                         !.detail = a.detail, !.header = header,
                                         !.reason = a.reason]
                /\ UNCHANGED <<vector_store, qa_chain, uploads, succeeded>>
           ELSE \E file \in Files, fault \in Faults :
                  LET r == MockUploadResult(file, fault, nreq + 1) IN
                  /\ vector_store' = r.vector_store
                  /\ qa_chain' = r.qa_chain
                  /\ uploads' = r.uploads
                  /\ succeeded' = IF r.status = 200
                            THEN Append(succeeded, [id |-> nreq + 1, doc |-> file.doc])
                                                     ELSE succeeded
                  /\ last' = [Blank EXCEPT !.op = "upload", !.status = r.status,
                                           !.detail = r.detail, !.header = header,
                                           !.file = FilePath(file.name), !.step = r.step,
                                           !.exc = r.exc, !.reason = "ok"]
    /\ nreq' = nreq + 1
    /\ UNCHANGED <<variant, now, issued>>

\* POST /ask of Mock.py.
MockAsk ==
    /\ variant = "mock"
    /\ nreq < MaxRequests
    /\ \E header \in Headers, question \in Questions :
         LET a == Authenticate(header, now) IN
         IF a.status # 0
           THEN last' = [Blank EXCEPT !.op = "ask", !.status = a.status, !.detail = a.detail,
                                      !.header = header, !.question = question,
                                      !.reason = a.reason]
           ELSE \E fails \in BOOLEAN, picked \in Picks :
                  LET r == MockAskResult(question, fails, picked) IN
                  last' = [Blank EXCEPT !.op = "ask", !.status = r.status,
                                        !.detail = r.detail, !.header = header,
                                        !.question = question, !.context = r.context,
                                        !.exc = r.exc, !.reason = "ok"]
    /\ nreq' = nreq + 1
    /\ UNCHANGED <<variant, vector_store, qa_chain, uploads, now, issued, succeeded>>

\* Time passes (datetime.utcnow() moves on between requests).
Tick ==
    /\ variant = "mock"
    /\ now + TickMinutes <= MaxNow
    /\ now' = now + TickMinutes
    /\ UNCHANGED <<variant, vector_store, qa_chain, uploads, issued, nreq, last, succeeded>>

Next == MainUpload \/ MainAsk \/ Login \/ MockUpload \/ MockAsk \/ Tick

Spec == Init /\ [][Next]_vars

(* ------------------------------- claims -------------------------------- *)

\* A step that serves one request.
Served == nreq' = nreq + 1

\* The index that holds exactly the chunks of the most recent upload
\* answered 200, if there is one.
LatestSucceeded ==
    IF succeeded = <<>>
      THEN NoIndex
      ELSE [id |-> succeeded[Len(succeeded)].id,
            chunks |-> Chunks(succeeded[Len(succeeded)].doc)]

\* The handler's body ran for the last request (it passed authentication).
HandlerRan == last.reason = "ok"

\* C1: an upload request that fails, at whatever step, leaves the pair
\* (vector_store, qa_chain) exactly as it was before the request.
C1_FailedUploadLeavesSessionState ==
    [][(Served /\ last'.op = "upload" /\ last'.status # 200)
         => (vector_store' = vector_store /\ qa_chain' = qa_chain)]_vars

\* C2: an ask that reads Session State finds a consistent pair: both fields
\* unset, or the index and the pipeline built by the most recent successful
\* upload; never an index of one upload beside the pipeline of another or
\* beside an unset pipeline.
C2_AskObservesConsistentPair ==
    (last.op = "ask" /\ HandlerRan)
      => \/ (vector_store = NoIndex /\ qa_chain = NoChain)
         \/ (/\ vector_store # NoIndex
             /\ vector_store = LatestSucceeded
             /\ qa_chain = FromLlm(vector_store.id, vector_store))

\* C3: after an upload request whose handler ran has completed, on any exit
\* path, the file it staged is absent from the upload directory.
C3_StagedFileAbsentAfterUpload ==
    (last.op = "upload" /\ HandlerRan) => last.file \notin uploads

\* C4: an ask from an authorized caller (any caller where there is no
\* authentication) made while no upload has been answered 200 is answered
\* 400 "No document has been uploaded yet", whatever the question and
\* however many uploads have failed.
C4_AskBeforeUploadIsNotReady ==
    (last.op = "ask" /\ HandlerRan /\ succeeded = <<>>)
      => (last.status = 400 /\ last.detail = "No document has been uploaded yet")

\* C4's case: an authorized whitespace-only ask in the auth variant, after
\* an upload that failed once the index was assigned.
C4_Witness ==
    /\ variant = "mock"
    /\ last.op = "ask" /\ HandlerRan /\ last.question = "   "
    /\ succeeded = <<>> /\ vector_store # NoIndex
    /\ last.status = 400

\* C5: an ask whose question is empty or whitespace only is answered 422,
\* whether or not an index and pipeline are active, in both variants.
C5_EmptyQuestionIs422 ==
    (last.op = "ask" /\ HandlerRan /\ Strip(last.question) = "") => last.status = 422

\* C6: a failed upload is answered 400 exactly when the failure is the
\* unsupported extension, and 500 for a failure of any other step, whatever
\* exception that step raises.
C6_UploadStatusByFailure ==
    (last.op = "upload" /\ HandlerRan /\ last.status # 200)
      => last.status = (IF last.step = "extension" THEN 400 ELSE 500)

\* C7: an ask that is answered was answered by the pipeline whose retriever
\* is the index of the most recent successful upload, and its context holds
\* chunks of that upload's document only.
C7_AskRetrievesFromLatestUpload ==
    (last.op = "ask" /\ last.status = 200)
      => /\ succeeded # <<>>
         /\ BoundRetriever = LatestSucceeded
         /\ last.context \subseteq LatestSucceeded.chunks

\* C7's case: A was uploaded, then B, and a question was answered from B's
\* chunks.
C7_Witness ==
    /\ Len(succeeded) = 2
    /\ succeeded[1].doc = "A"
    /\ succeeded[2].doc = "B"
    /\ last.op = "ask" /\ last.status = 200
    /\ last.context = Chunks("B")

\* C7's second case: after a successful upload, a later upload failed when
\* the index had already been assigned, and a question was answered.
C7_WitnessAfterFailedUpload ==
    /\ Len(succeeded) = 1
    /\ vector_store # LatestSucceeded
    /\ last.op = "ask" /\ last.status = 200 /\ last.context # {}

\* C8: in the auth variant an upload without a bearer token is answered 401
\* and changes neither Session State nor the upload directory, and an
\* authorized ask that follows it on an index built before is answered,
\* unless the provider fails.
C8_UploadWithoutTokenChangesNothing ==
    [][/\ (variant = "mock" /\ Served /\ last'.op = "upload" /\ last'.header = NoHeader)
            => (last'.status = 401 /\ UNCHANGED <<vector_store, qa_chain, uploads>>)
       /\ (/\ variant = "mock" /\ last.op = "upload" /\ last.header = NoHeader
           /\ succeeded # <<>>
           /\ Served /\ last'.op = "ask" /\ last'.reason = "ok")
            => (last'.status = 200 \/ last'.exc = "RuntimeError")]_vars

\* C8's case: an index is active, an upload without a token was refused,
\* and a caller holds a valid token for the ask that follows.
C8_Witness ==
    /\ variant = "mock"
    /\ last.op = "upload" /\ last.header = NoHeader /\ last.status = 401
    /\ succeeded # <<>> /\ vector_store = LatestSucceeded
    /\ nreq < MaxRequests
    /\ \E token \in issued : Authenticate(token, now).status = 0

\* The stored form of a password.
Hashed(password) == "hashed_" \o password

\* C9: login answers with a token only when the username is in the user
\* table and the password matches the one stored for it.
C9_LoginRequiresPassword ==
    (last.op = "login" /\ last.status = 200)
      => /\ last.username \in DOMAIN users_db
         /\ Hashed(last.password) = users_db[last.username].hashed_password

\* C10: on upload and ask of the auth variant, a token that fails validation
\* for any reason (undecodable, bad signature, expired, no subject, unknown
\* subject) is answered 401.
C10_InvalidTokenIs401 ==
    (/\ last.op \in {"upload", "ask"}
     /\ last.reason \in {"undecodable", "signature", "expired", "nosub", "unknownsub"})
      => last.status = 401

====
